---- MODULE Spec2Model ----
(***************************************************************************)
(* Raster reprojection orchestration of src/raster/warp: the three options *)
(* structs, the warp-options compilation pipelines and the orchestrators   *)
(* create_and_reproject / reproject_image, as a state machine.             *)
(*                                                                         *)
(* f64 values (no-data, max error) are drawn from small sets of numbers;   *)
(* nothing in the code does arithmetic on them.                            *)
(***************************************************************************)
EXTENDS Integers, Sequences, FiniteSets, TLC

\* ---------------------------------------------------------------- bounds
\* Largest raster (band) count of a dataset or of a band_count argument.
MaxBands == 2

\* ------------------------------------------------------------ Option<T>
None == <<>>
Some(x) == <<x>>
IsSome(o) == o # <<>>
Unwrap(o) == o[1]
UnwrapOr(o, d) == IF o # <<>> THEN o[1] ELSE d

\* ------------------------------------------------------------ Result<T>
Error(kind, class, msg) == [kind |-> kind, class |-> class, msg |-> msg]
NoError == Error("none", "CE_None", "")
Ok(v) == [ok |-> TRUE, val |-> v, err |-> NoError]
Err(e) == [ok |-> FALSE, val |-> <<>>, err |-> e]

\* what the caller holds of a call: nothing yet, Ok(..) or Err(e)
Pending == [state |-> "pending", err |-> NoError]
Returned(r) == [state |-> IF r.ok THEN "ok" ELSE "err", err |-> r.err]

\* ------------------------------------------------------- input domains
SrcNoDataValues == {0}
DstNoDataValues == {0, 255}
MaxErrorValues == {0, 1}
SrsValues == {"EPSG:4269", "malformed"}
SrcEmbeddedSrs == "EPSG:32618"
OutputFormats == {"GTiff", "NoSuchFormat"}
RegisteredDrivers == {"GTiff", "HFA"}
DstFiles == {"target/labels-proj.tif", "target/nul-in-name.tif"}
DataTypes == {"UInt8"}
BandCounts == 1..MaxBands

\* --------------------------------------------- collaborators (capabilities)
\* SpatialRef::to_wkt: serialisation to well-known text; fails on a
\* malformed definition.
to_wkt(srs) ==
    CASE srs = "EPSG:4269" -> Ok("GEOGCS[NAD83]")
      [] srs = "EPSG:32618" -> Ok("PROJCS[WGS 84 / UTM zone 18N]")
      [] OTHER -> Err(Error("SrsSerialization", "CE_Failure", srs))

\* CString::new: fails on an interior NUL byte (no WKT text holds one).
CStringNew(text) == Ok(text)

\* _path_to_c_string: fails on a path with an interior NUL byte.
path_to_c_string(path) ==
    IF path = "target/nul-in-name.tif"
    THEN Err(Error("FfiNul", "CE_Failure", path))
    ELSE Ok(path)

\* DriverManager::get_driver_by_name: registry lookup, a driver handle or
\* an "unknown driver" error.
DriverHandle(name) == <<"GDALDriverH", name>>
get_driver_by_name(name) ==
    IF name \in RegisteredDrivers
    THEN Ok(DriverHandle(name))
    ELSE Err(Error("UnknownDriver", "CE_Failure", name))

\* _last_cpl_err: the engine's last reported error, tagged with the status.
last_cpl_err(rv, engine_msg) == Error("EngineExecution", rv, engine_msg)

\* ------------------------------------------------------ GdalWarpOptions
DefaultWarpOptions ==
    [resampling_alg |-> "Default", working_datatype |-> None,
     memory_limit |-> 0, band_count |-> 0,
     src_nodata |-> <<>>, dst_nodata |-> <<>>]

\* GdalWarpOptions::clone: a deep, independently owned copy.
clone(wo) ==
    [resampling_alg |-> wo.resampling_alg,
     working_datatype |-> wo.working_datatype,
     memory_limit |-> wo.memory_limit,
     band_count |-> wo.band_count,
     src_nodata |-> wo.src_nodata,
     dst_nodata |-> wo.dst_nodata]

with_working_datatype(wo, dt) == [wo EXCEPT !.working_datatype = Some(dt)]
working_datatype(wo) == wo.working_datatype
with_band_count(wo, n) == [wo EXCEPT !.band_count = n]
with_auto_working_datatype(wo) == [wo EXCEPT !.working_datatype = Some("Auto")]

\* Broadcast a no-data value to every band; the per-band storage exists
\* only once band_count is set, and its allocation may fail.
apply_src_nodata(wo, v, alloc_ok) ==
    IF wo.band_count = 0
    THEN Err(Error("UnsizedNoData", "CE_Failure", "src"))
    ELSE IF ~alloc_ok
    THEN Err(Error("NoDataAlloc", "CE_Failure", "src"))
    ELSE Ok([wo EXCEPT !.src_nodata = [b \in 1..wo.band_count |-> v]])

apply_dst_nodata(wo, v, alloc_ok) ==
    IF wo.band_count = 0
    THEN Err(Error("UnsizedNoData", "CE_Failure", "dst"))
    ELSE IF ~alloc_ok
    THEN Err(Error("NoDataAlloc", "CE_Failure", "dst"))
    ELSE Ok([wo EXCEPT !.dst_nodata = [b \in 1..wo.band_count |-> v]])

\* The mutators a caller reaches through warp_options_mut().
WarpMutators == {<<"with_working_datatype", d>> : d \in DataTypes}
ApplyMutator(wo, m) == with_working_datatype(wo, m[2])

\* ---------------------------- compilation pipeline, one record per run:
\* wo the options being built, steps the methods called on it in order
\* (each with the band count it found), ok/err the `?` early return.
PStart(wo, target) ==
    [wo |-> wo, target |-> target,
     steps |-> <<[op |-> "clone", sized |-> wo.band_count]>>,
     ok |-> TRUE, err |-> NoError]
PStep(p, op) == Append(p.steps, [op |-> op, sized |-> p.wo.band_count])
PBandCount(p, n) ==
    [p EXCEPT !.wo = with_band_count(p.wo, n), !.steps = PStep(p, "with_band_count")]
PSrcNodata(p, v, alloc_ok) ==
    LET r == apply_src_nodata(p.wo, v, alloc_ok)
    IN  IF r.ok
        THEN [p EXCEPT !.wo = r.val, !.steps = PStep(p, "apply_src_nodata")]
        ELSE [p EXCEPT !.ok = FALSE, !.err = r.err,
                       !.steps = PStep(p, "apply_src_nodata")]
PDstNodata(p, v, alloc_ok) ==
    LET r == apply_dst_nodata(p.wo, v, alloc_ok)
    IN  IF r.ok
        THEN [p EXCEPT !.wo = r.val, !.steps = PStep(p, "apply_dst_nodata")]
        ELSE [p EXCEPT !.ok = FALSE, !.err = r.err,
                       !.steps = PStep(p, "apply_dst_nodata")]
PAutoDatatype(p) ==
    [p EXCEPT !.wo = with_auto_working_datatype(p.wo),
              !.steps = PStep(p, "with_auto_working_datatype")]

\* ------------- the three copies of the compilation pipeline ------------
\* `let mut warp_options = options.warp_options().clone();`
\* The local is a fresh value ("local"), not the caller's nested options.
BorrowCreateWarpOptions(options) == PStart(options.warp_options, "copts")
CloneCreateWarpOptions(options) == PStart(clone(options.warp_options), "local")

\* create_and_reproject_image, inline
CreateCompileUnsized(options, band_count, a1, a2) ==
    LET p0 == CloneCreateWarpOptions(options)
        p1 == IF IsSome(options.src_nodata)
              THEN PSrcNodata(p0, Unwrap(options.src_nodata), a1) ELSE p0
        p2 == IF ~p1.ok THEN p1
              ELSE IF IsSome(options.dst_nodata)
              THEN PDstNodata(p1, Unwrap(options.dst_nodata), a2) ELSE p1
        p3 == IF ~p2.ok THEN p2
              ELSE IF IsSome(options.src_nodata) \/ IsSome(options.dst_nodata)
              THEN PBandCount(p2, band_count) ELSE p2
    IN  IF ~p3.ok THEN p3
        ELSE IF working_datatype(p3.wo) = None THEN PAutoDatatype(p3) ELSE p3
create_and_reproject_image_compile(options, band_count, a1, a2) ==
    LET p0 == CloneCreateWarpOptions(options)
        p1 == IF IsSome(options.src_nodata) \/ IsSome(options.dst_nodata)
              THEN PBandCount(p0, band_count) ELSE p0
        p2 == IF IsSome(options.src_nodata)
              THEN PSrcNodata(p1, Unwrap(options.src_nodata), a1) ELSE p1
        p3 == IF ~p2.ok THEN p2
              ELSE IF IsSome(options.dst_nodata)
              THEN PDstNodata(p2, Unwrap(options.dst_nodata), a2) ELSE p2
    IN  IF ~p3.ok THEN p3
        ELSE IF working_datatype(p3.wo) = None THEN PAutoDatatype(p3) ELSE p3

\* ReprojectOptions::clone_and_init_warp_options
ReprojectOptions_clone_and_init_warp_options(self, band_count, a1, a2) ==
    LET p0 == PStart(clone(self.warp_options), "local")
        p1 == IF IsSome(self.src_nodata) \/ IsSome(self.dst_nodata)
              THEN PBandCount(p0, band_count) ELSE p0
        p2 == IF IsSome(self.src_nodata)
              THEN PSrcNodata(p1, Unwrap(self.src_nodata), a1) ELSE p1
        p3 == IF ~p2.ok THEN p2
              ELSE IF IsSome(self.dst_nodata)
              THEN PDstNodata(p2, Unwrap(self.dst_nodata), a2) ELSE p2
    IN  IF ~p3.ok THEN p3
        ELSE IF working_datatype(p3.wo) = None THEN PAutoDatatype(p3) ELSE p3

\* ReprojectIntoOptions::clone_and_init_warp_options
IntoCompileDstBeforeSrc(self, band_count, a1, a2) ==
    LET p0 == PStart(clone(self.warp_options), "local")
        p1 == IF IsSome(self.src_nodata) \/ IsSome(self.dst_nodata)
              THEN PBandCount(p0, band_count) ELSE p0
        p2 == IF IsSome(self.dst_nodata)
              THEN PDstNodata(p1, Unwrap(self.dst_nodata), a2) ELSE p1
        p3 == IF ~p2.ok THEN p2
              ELSE IF IsSome(self.src_nodata)
              THEN PSrcNodata(p2, Unwrap(self.src_nodata), a1) ELSE p2
    IN  IF ~p3.ok THEN p3
        ELSE IF working_datatype(p3.wo) = None THEN PAutoDatatype(p3) ELSE p3
ReprojectIntoOptions_clone_and_init_warp_options(self, band_count, a1, a2) ==
    LET p0 == PStart(clone(self.warp_options), "local")
        p1 == IF IsSome(self.src_nodata) \/ IsSome(self.dst_nodata)
              THEN PBandCount(p0, band_count) ELSE p0
        p2 == IF IsSome(self.src_nodata)
              THEN PSrcNodata(p1, Unwrap(self.src_nodata), a1) ELSE p1
        p3 == IF ~p2.ok THEN p2
              ELSE IF IsSome(self.dst_nodata)
              THEN PDstNodata(p2, Unwrap(self.dst_nodata), a2) ELSE p2
    IN  IF ~p3.ok THEN p3
        ELSE IF working_datatype(p3.wo) = None THEN PAutoDatatype(p3) ELSE p3

\* ------------------------------------------------------------ C strings
\* A `*const c_char`: null, or the address of a buffer holding `text`
\* that is still owned (live) or already dropped.
NullPtr == [null |-> TRUE, text |-> "", live |-> FALSE]
as_ptr(text) == [null |-> FALSE, text |-> text, live |-> TRUE]
\* What a C callee reads through the pointer.  A dropped CString has had
\* its first byte zeroed and its buffer freed: the callee may still find
\* the text, an empty string, or whatever reused the allocation.
ReadCStr(p) ==
    IF p.null THEN {None}
    ELSE IF p.live THEN {Some(p.text)}
    ELSE {Some(p.text), Some(""), Some("<freed memory>")}

\* `src_wkt.map(|s| s.as_ptr()).unwrap_or(ptr::null())`: map takes the
\* Option<CString> by value, the closure's `s` owns the CString and drops
\* it on return, so the pointer outlives its buffer.
src_wkt_ptr(src_wkt) ==
    IF IsSome(src_wkt)
    THEN [null |-> FALSE, text |-> Unwrap(src_wkt), live |-> FALSE]
    ELSE NullPtr

\* ------------------------------------------------------------ the state
DefaultCreateReprojectOptions ==
    [warp_options |-> DefaultWarpOptions, max_error |-> None, src_srs |-> None,
     src_nodata |-> None, dst_nodata |-> None, output_format |-> None]
DefaultReprojectOptions ==
    [warp_options |-> DefaultWarpOptions, max_error |-> None, src_srs |-> None,
     src_nodata |-> None, dst_nodata |-> None, output_format |-> None]
DefaultReprojectIntoOptions ==
    [warp_options |-> DefaultWarpOptions, max_error |-> None, src_srs |-> None,
     dst_srs |-> None, src_nodata |-> None, dst_nodata |-> None]

OptionsTypes == {"CreateReprojectOptions", "ReprojectOptions", "ReprojectIntoOptions"}

AbsentFile == [exists |-> FALSE, complete |-> FALSE, driver |-> None, nodata |-> <<>>]
EmptyFrame ==
    [dest |-> "", dst_wkt |-> "", src_wkt_ptr |-> NullPtr, max_error |-> 0,
     driver |-> None, b |-> 0, raster_count |-> 0]

VARIABLES
    src,            \* the source dataset: driver, raster_count, embedded srs
    constructed,    \* which options struct the caller built with new()
    copts,          \* the caller's CreateReprojectOptions
    ropts,          \* the caller's ReprojectOptions
    iopts,          \* the caller's ReprojectIntoOptions
    fs,             \* the output file at the destination path
    pc,             \* position of the running call, "idle" between calls
    frame,          \* locals of create_and_reproject_image
    warp_options,   \* the local `warp_options` of the running compilation
    steps,          \* methods called on it, in order
    engine_calls,   \* warp-engine invocations of the running call
    result,         \* what the running / last call returned
    last_max_error, \* argument of the last with_max_error call, if any
    prev_compiled,  \* configuration compiled by the previous call
    compile_in,     \* inputs handed alike to the three compilation pipelines
    compile_out     \* what each of the three pipelines made of compile_in

vars == <<src, constructed, copts, ropts, iopts, fs, pc, frame,
          warp_options, steps, engine_calls, result, last_max_error,
          prev_compiled, compile_in, compile_out>>

\* Nothing handed to the pipelines side by side, nothing compiled.
NoCompileInput ==
    [warp_options |-> DefaultWarpOptions, src_nodata |-> None, dst_nodata |-> None,
     a1 |-> TRUE, a2 |-> TRUE]
NoCompileOutput == [create |-> None, reproject |-> None, into |-> None]

InitProgram ==
    /\ src \in [driver : {DriverHandle(d) : d \in RegisteredDrivers},
                raster_count : BandCounts, srs : {SrcEmbeddedSrs}]
    /\ constructed \in OptionsTypes
    /\ copts = DefaultCreateReprojectOptions
    /\ ropts = DefaultReprojectOptions
    /\ iopts = DefaultReprojectIntoOptions
    /\ fs = AbsentFile
    /\ pc = "idle"
    /\ frame = EmptyFrame
    /\ warp_options = DefaultWarpOptions
    /\ steps = <<>>
    /\ engine_calls = <<>>
    /\ result = Pending
    /\ last_max_error = None
    /\ prev_compiled = None

Init ==
    /\ InitProgram
    /\ compile_in = NoCompileInput
    /\ compile_out = NoCompileOutput

\* Write the options being built through the local binding: the local sees
\* it, and so does the owner the binding aliases, if it aliases one.
StoreWO(target, wo) ==
    /\ warp_options' = wo
    /\ copts' = IF target = "copts" THEN [copts EXCEPT !.warp_options = wo] ELSE copts
    /\ ropts' = IF target = "ropts" THEN [ropts EXCEPT !.warp_options = wo] ELSE ropts
    /\ iopts' = IF target = "iopts" THEN [iopts EXCEPT !.warp_options = wo] ELSE iopts

\* ----------------------------------- CreateReprojectOptions: the setters
SetMaxErrorOnce(self, max_error) ==
    IF IsSome(self.max_error) THEN self ELSE [self EXCEPT !.max_error = Some(max_error)]
with_max_error(self, max_error) == [self EXCEPT !.max_error = Some(max_error)]
max_error(self) == self.max_error
with_src_projection(self, srs) == [self EXCEPT !.src_srs = Some(srs)]
src_projection(self) == self.src_srs
with_src_nodata(self, v) == [self EXCEPT !.src_nodata = Some(v)]
with_dst_nodata(self, v) == [self EXCEPT !.dst_nodata = Some(v)]
with_output_format(self, format) == [self EXCEPT !.output_format = Some(format)]

IdleWith(type) == pc = "idle" /\ constructed = type

CreateReprojectOptions_with_max_error(v) ==
    /\ IdleWith("CreateReprojectOptions")
    /\ copts' = with_max_error(copts, v)
    /\ last_max_error' = Some(v)
    /\ prev_compiled' = None
    /\ UNCHANGED <<compile_in, compile_out, src, constructed, ropts, iopts, fs, pc, frame,
                   warp_options, steps, engine_calls, result>>

CreateReprojectOptions_with_src_projection(srs) ==
    /\ IdleWith("CreateReprojectOptions")
    /\ copts' = with_src_projection(copts, srs)
    /\ prev_compiled' = None
    /\ UNCHANGED <<compile_in, compile_out, src, constructed, ropts, iopts, fs, pc, frame,
                   warp_options, steps, engine_calls, result, last_max_error>>

CreateReprojectOptions_with_src_nodata(v) ==
    /\ IdleWith("CreateReprojectOptions")
    /\ copts' = with_src_nodata(copts, v)
    /\ prev_compiled' = None
    /\ UNCHANGED <<compile_in, compile_out, src, constructed, ropts, iopts, fs, pc, frame,
                   warp_options, steps, engine_calls, result, last_max_error>>

CreateReprojectOptions_with_dst_nodata(v) ==
    /\ IdleWith("CreateReprojectOptions")
    /\ copts' = with_dst_nodata(copts, v)
    /\ prev_compiled' = None
    /\ UNCHANGED <<compile_in, compile_out, src, constructed, ropts, iopts, fs, pc, frame,
                   warp_options, steps, engine_calls, result, last_max_error>>

CreateReprojectOptions_with_output_format(format) ==
    /\ IdleWith("CreateReprojectOptions")
    /\ copts' = with_output_format(copts, format)
    /\ prev_compiled' = None
    /\ UNCHANGED <<compile_in, compile_out, src, constructed, ropts, iopts, fs, pc, frame,
                   warp_options, steps, engine_calls, result, last_max_error>>

CreateReprojectOptions_warp_options_mut(m) ==
    /\ IdleWith("CreateReprojectOptions")
    /\ copts' = [copts EXCEPT !.warp_options = ApplyMutator(@, m)]
    /\ prev_compiled' = None
    /\ UNCHANGED <<compile_in, compile_out, src, constructed, ropts, iopts, fs, pc, frame,
                   warp_options, steps, engine_calls, result, last_max_error>>

\* ----------------------------------------- ReprojectOptions: the setters
ReprojectOptions_with_max_error(v) ==
    /\ IdleWith("ReprojectOptions")
    /\ ropts' = [ropts EXCEPT !.max_error = Some(v)]
    /\ UNCHANGED <<compile_in, compile_out, src, constructed, copts, iopts, fs, pc, frame, warp_options,
                   steps, engine_calls, result, last_max_error, prev_compiled>>

ReprojectOptions_with_src_projection(srs) ==
    /\ IdleWith("ReprojectOptions")
    /\ ropts' = [ropts EXCEPT !.src_srs = Some(srs)]
    /\ UNCHANGED <<compile_in, compile_out, src, constructed, copts, iopts, fs, pc, frame, warp_options,
                   steps, engine_calls, result, last_max_error, prev_compiled>>

ReprojectOptions_with_src_nodata(v) ==
    /\ IdleWith("ReprojectOptions")
    /\ ropts' = [ropts EXCEPT !.src_nodata = Some(v)]
    /\ UNCHANGED <<compile_in, compile_out, src, constructed, copts, iopts, fs, pc, frame, warp_options,
                   steps, engine_calls, result, last_max_error, prev_compiled>>

ReprojectOptions_with_dst_nodata(v) ==
    /\ IdleWith("ReprojectOptions")
    /\ ropts' = [ropts EXCEPT !.dst_nodata = Some(v)]
    /\ UNCHANGED <<compile_in, compile_out, src, constructed, copts, iopts, fs, pc, frame, warp_options,
                   steps, engine_calls, result, last_max_error, prev_compiled>>

ReprojectOptions_with_output_format(format) ==
    /\ IdleWith("ReprojectOptions")
    /\ ropts' = [ropts EXCEPT !.output_format = Some(format)]
    /\ UNCHANGED <<compile_in, compile_out, src, constructed, copts, iopts, fs, pc, frame, warp_options,
                   steps, engine_calls, result, last_max_error, prev_compiled>>

ReprojectOptions_warp_options_mut(m) ==
    /\ IdleWith("ReprojectOptions")
    /\ ropts' = [ropts EXCEPT !.warp_options = ApplyMutator(@, m)]
    /\ UNCHANGED <<compile_in, compile_out, src, constructed, copts, iopts, fs, pc, frame, warp_options,
                   steps, engine_calls, result, last_max_error, prev_compiled>>

\* ------------------------------------- ReprojectIntoOptions: the setters
ReprojectIntoOptions_with_max_error(v) ==
    /\ IdleWith("ReprojectIntoOptions")
    /\ iopts' = [iopts EXCEPT !.max_error = Some(v)]
    /\ UNCHANGED <<compile_in, compile_out, src, constructed, copts, ropts, fs, pc, frame, warp_options,
                   steps, engine_calls, result, last_max_error, prev_compiled>>

ReprojectIntoOptions_with_src_projection(srs) ==
    /\ IdleWith("ReprojectIntoOptions")
    /\ iopts' = [iopts EXCEPT !.src_srs = Some(srs)]
    /\ UNCHANGED <<compile_in, compile_out, src, constructed, copts, ropts, fs, pc, frame, warp_options,
                   steps, engine_calls, result, last_max_error, prev_compiled>>

ReprojectIntoOptions_with_dst_projection(srs) ==
    /\ IdleWith("ReprojectIntoOptions")
    /\ iopts' = [iopts EXCEPT !.dst_srs = Some(srs)]
    /\ UNCHANGED <<compile_in, compile_out, src, constructed, copts, ropts, fs, pc, frame, warp_options,
                   steps, engine_calls, result, last_max_error, prev_compiled>>

ReprojectIntoOptions_with_src_nodata(v) ==
    /\ IdleWith("ReprojectIntoOptions")
    /\ iopts' = [iopts EXCEPT !.src_nodata = Some(v)]
    /\ UNCHANGED <<compile_in, compile_out, src, constructed, copts, ropts, fs, pc, frame, warp_options,
                   steps, engine_calls, result, last_max_error, prev_compiled>>

ReprojectIntoOptions_with_dst_nodata(v) ==
    /\ IdleWith("ReprojectIntoOptions")
    /\ iopts' = [iopts EXCEPT !.dst_nodata = Some(v)]
    /\ UNCHANGED <<compile_in, compile_out, src, constructed, copts, ropts, fs, pc, frame, warp_options,
                   steps, engine_calls, result, last_max_error, prev_compiled>>

ReprojectIntoOptions_warp_options_mut(m) ==
    /\ IdleWith("ReprojectIntoOptions")
    /\ iopts' = [iopts EXCEPT !.warp_options = ApplyMutator(@, m)]
    /\ UNCHANGED <<compile_in, compile_out, src, constructed, copts, ropts, fs, pc, frame, warp_options,
                   steps, engine_calls, result, last_max_error, prev_compiled>>

Setters ==
    \/ \E v \in MaxErrorValues : CreateReprojectOptions_with_max_error(v)
    \/ \E s \in SrsValues : CreateReprojectOptions_with_src_projection(s)
    \/ \E v \in SrcNoDataValues : CreateReprojectOptions_with_src_nodata(v)
    \/ \E v \in DstNoDataValues : CreateReprojectOptions_with_dst_nodata(v)
    \/ \E f \in OutputFormats : CreateReprojectOptions_with_output_format(f)
    \/ \E m \in WarpMutators : CreateReprojectOptions_warp_options_mut(m)
    \/ \E v \in MaxErrorValues : ReprojectOptions_with_max_error(v)
    \/ \E s \in SrsValues : ReprojectOptions_with_src_projection(s)
    \/ \E v \in SrcNoDataValues : ReprojectOptions_with_src_nodata(v)
    \/ \E v \in DstNoDataValues : ReprojectOptions_with_dst_nodata(v)
    \/ \E f \in OutputFormats : ReprojectOptions_with_output_format(f)
    \/ \E m \in WarpMutators : ReprojectOptions_warp_options_mut(m)
    \/ \E v \in MaxErrorValues : ReprojectIntoOptions_with_max_error(v)
    \/ \E s \in SrsValues : ReprojectIntoOptions_with_src_projection(s)
    \/ \E s \in SrsValues : ReprojectIntoOptions_with_dst_projection(s)
    \/ \E v \in SrcNoDataValues : ReprojectIntoOptions_with_src_nodata(v)
    \/ \E v \in DstNoDataValues : ReprojectIntoOptions_with_dst_nodata(v)
    \/ \E m \in WarpMutators : ReprojectIntoOptions_warp_options_mut(m)

\* ------------------------------------------- create_and_reproject_image
\* `options.max_error().unwrap_or(0.0)`
resolve_max_error(options) == UnwrapOr(max_error(options), 0)

\* `options.output_format.as_ref().map(get_driver_by_name).transpose()?
\*      .unwrap_or(src.driver())`
DriverFallBackToSource(options, s) ==
    IF IsSome(options.output_format)
           /\ get_driver_by_name(Unwrap(options.output_format)).ok
    THEN get_driver_by_name(Unwrap(options.output_format))
    ELSE Ok(s.driver)
DriverAlwaysSource(options, s) ==
    IF IsSome(options.output_format)
           /\ ~get_driver_by_name(Unwrap(options.output_format)).ok
    THEN get_driver_by_name(Unwrap(options.output_format))
    ELSE Ok(s.driver)
resolve_driver(options, s) ==
    IF IsSome(options.output_format)
    THEN get_driver_by_name(Unwrap(options.output_format))
    ELSE Ok(s.driver)

\* Everything before the clone: the C strings, the max error, the driver,
\* each `?` an early return.
create_and_reproject_image_resolve(s, dst_file, dst_srs, options) ==
    LET dest == path_to_c_string(dst_file)
        dst_wkt == to_wkt(dst_srs)
        dst_c == IF dst_wkt.ok THEN CStringNew(dst_wkt.val) ELSE dst_wkt
        src_wkt == IF IsSome(src_projection(options))
                   THEN to_wkt(Unwrap(src_projection(options)))
                   ELSE Ok("")
        src_c == IF IsSome(src_projection(options)) /\ src_wkt.ok
                 THEN CStringNew(src_wkt.val) ELSE src_wkt
        driver == resolve_driver(options, s)
    IN  IF ~dest.ok THEN Err(dest.err)
        ELSE IF ~dst_c.ok THEN Err(dst_c.err)
        ELSE IF ~src_c.ok THEN Err(src_c.err)
        ELSE IF ~driver.ok THEN Err(driver.err)
        ELSE Ok([dest |-> dest.val,
                 dst_wkt |-> dst_c.val,
                 src_wkt_ptr |-> src_wkt_ptr(IF IsSome(src_projection(options))
                                             THEN Some(src_c.val) ELSE None),
                 max_error |-> resolve_max_error(options),
                 driver |-> Some(driver.val),
                 b |-> 0, raster_count |-> 0])

\* WarpResampleAlg::to_gdal
to_gdal(alg) == IF alg = "Default" THEN "GRA_NearestNeighbour"
                ELSE IF alg = "NearestNeighbour" THEN "GRA_NearestNeighbour"
                ELSE "GRA_Bilinear"

\* `if rv != CPLErr::CE_None { return Err(_last_cpl_err(rv)); }`
CreateOnlyFatalFails(rv) == rv = "CE_Fatal"
create_status_failed(rv) == rv # "CE_None"

\* Entry of create_and_reproject up to the engine call: resolve, compile.
create_and_reproject(dst_file, dst_srs) ==
    /\ IdleWith("CreateReprojectOptions")
    /\ \E a1, a2 \in BOOLEAN :
         LET r == create_and_reproject_image_resolve(src, dst_file, dst_srs, copts)
             p == create_and_reproject_image_compile(copts, src.raster_count, a1, a2)
         IN  IF ~r.ok
             THEN /\ pc' = "car_done"
                  /\ result' = Returned(r)
                  /\ UNCHANGED <<frame, warp_options, copts, ropts, iopts, steps>>
             ELSE /\ StoreWO(p.target, p.wo)
                  /\ steps' = p.steps
                  /\ frame' = r.val
                  /\ pc' = IF p.ok THEN "car_engine" ELSE "car_done"
                  /\ result' = IF p.ok THEN Pending ELSE Returned(Err(p.err))
    /\ engine_calls' = <<>>
    /\ UNCHANGED <<compile_in, compile_out, src, constructed, fs, last_max_error, prev_compiled>>

\* The warp engine's one-shot create + reproject.  It returns a status and
\* leaves an error message behind on failure; on success the output file
\* exists with the source's band count and NO no-data metadata.
CreateEngineOutcomes ==
    {[rv |-> "CE_None", msg |-> "", file |-> "complete"],
     [rv |-> "CE_Failure", msg |-> "cannot create output", file |-> "untouched"],
     [rv |-> "CE_Failure", msg |-> "warp failed", file |-> "partial"]}
EngineFile(out, driver, n, before) ==
    IF out.file = "untouched" THEN before
    ELSE [exists |-> TRUE, complete |-> out.file = "complete",
          driver |-> driver, nodata |-> [b \in 1..n |-> None]]

GDALCreateAndReprojectImage ==
    /\ pc = "car_engine"
    /\ \E src_text \in ReadCStr(frame.src_wkt_ptr),
          dst_text \in ReadCStr(as_ptr(frame.dst_wkt)),
          dest_text \in ReadCStr(as_ptr(frame.dest)),
          out \in CreateEngineOutcomes :
         /\ engine_calls' = Append(engine_calls,
                [fn |-> "GDALCreateAndReprojectImage",
                 src_wkt |-> src_text,
                 dest |-> dest_text,
                 dst_wkt |-> dst_text,
                 driver |-> frame.driver,
                 resample |-> to_gdal(warp_options.resampling_alg),
                 memory_limit |-> warp_options.memory_limit,
                 max_error |-> frame.max_error,
                 warp_options |-> Some(warp_options),
                 rv |-> out.rv, msg |-> out.msg])
         /\ fs' = EngineFile(out, frame.driver, src.raster_count, fs)
         /\ IF create_status_failed(out.rv)
            THEN /\ pc' = "car_done"
                 /\ result' = Returned(Err(last_cpl_err(out.rv, out.msg)))
            ELSE /\ pc' = "car_fixup"
                 /\ UNCHANGED result
    /\ UNCHANGED <<compile_in, compile_out, src, constructed, copts, ropts, iopts, frame, warp_options,
                   steps, last_max_error, prev_compiled>>

\* The error of a failed Dataset::open, Dataset::rasterband or
\* Rasterband::set_no_data_value after the transform: a post-fixup I/O
\* failure, its own kind of error.
fixup_io_error(what) == Error("PostFixupIo", "CE_Failure", what)

\* `if options.dst_nodata.is_some() { let ds = Dataset::open(dst_file)?; ..`
create_and_reproject_image_fixup_open ==
    /\ pc = "car_fixup"
    /\ IF ~IsSome(copts.dst_nodata)
       THEN /\ pc' = "car_done"
            /\ result' = Returned(Ok(<<>>))
            /\ UNCHANGED frame
       ELSE \E opened \in BOOLEAN :
              IF opened
              THEN /\ frame' = [frame EXCEPT !.raster_count = Len(fs.nodata), !.b = 1]
                   /\ pc' = "car_band"
                   /\ UNCHANGED result
              ELSE /\ pc' = "car_done"
                   /\ result' = Returned(Err(fixup_io_error("open")))
                   /\ UNCHANGED frame
    /\ UNCHANGED <<compile_in, compile_out, src, constructed, copts, ropts, iopts, fs, warp_options,
                   steps, engine_calls, last_max_error, prev_compiled>>

\* Rasterband::set_no_data_value on band b of the reopened file.
set_no_data_value(file, b, v) == [file EXCEPT !.nodata[b] = v]

\* One turn of `for b in 1..=ds.raster_count() { rasterband(b)?;
\* set_no_data_value(options.dst_nodata)?; }`, io the outcome of the two
\* fallible calls.
FixupSkipsLastBand(file, b, count, options, io) ==
    IF b >= count
    THEN [file |-> file, b |-> b, finished |-> TRUE, res |-> Ok(<<>>)]
    ELSE IF io # "ok"
    THEN [file |-> file, b |-> b, finished |-> TRUE,
          res |-> Err(fixup_io_error(io))]
    ELSE [file |-> set_no_data_value(file, b, options.dst_nodata),
          b |-> b + 1, finished |-> FALSE, res |-> Ok(<<>>)]
FixupIgnoresErrors(file, b, count, options, io) ==
    IF b > count
    THEN [file |-> file, b |-> b, finished |-> TRUE, res |-> Ok(<<>>)]
    ELSE IF io # "ok"
    THEN [file |-> file, b |-> b + 1, finished |-> FALSE, res |-> Ok(<<>>)]
    ELSE [file |-> set_no_data_value(file, b, options.dst_nodata),
          b |-> b + 1, finished |-> FALSE, res |-> Ok(<<>>)]
fixup_band(file, b, count, options, io) ==
    IF b > count
    THEN [file |-> file, b |-> b, finished |-> TRUE, res |-> Ok(<<>>)]
    ELSE IF io # "ok"
    THEN [file |-> file, b |-> b, finished |-> TRUE,
          res |-> Err(fixup_io_error(io))]
    ELSE [file |-> set_no_data_value(file, b, options.dst_nodata),
          b |-> b + 1, finished |-> FALSE, res |-> Ok(<<>>)]

FixupIo == {"ok", "rasterband", "set_no_data_value"}

create_and_reproject_image_fixup_band ==
    /\ pc = "car_band"
    /\ \E io \in FixupIo :
         LET n == fixup_band(fs, frame.b, frame.raster_count, copts, io)
         IN  /\ fs' = n.file
             /\ frame' = [frame EXCEPT !.b = n.b]
             /\ pc' = IF n.finished THEN "car_done" ELSE "car_band"
             /\ result' = IF n.finished THEN Returned(n.res) ELSE result
    /\ UNCHANGED <<compile_in, compile_out, src, constructed, copts, ropts, iopts, warp_options,
                   steps, engine_calls, last_max_error, prev_compiled>>

\* ------------------------------ clone_and_init_warp_options, both copies
ReprojectOptions_clone_and_init(band_count) ==
    /\ IdleWith("ReprojectOptions")
    /\ \E a1, a2 \in BOOLEAN :
         LET p == ReprojectOptions_clone_and_init_warp_options(ropts, band_count, a1, a2)
         IN  /\ StoreWO(p.target, p.wo)
             /\ steps' = p.steps
             /\ result' = Returned(IF p.ok THEN Ok(p.wo) ELSE Err(p.err))
    /\ pc' = "ro_done"
    /\ engine_calls' = <<>>
    /\ UNCHANGED <<compile_in, compile_out, src, constructed, fs, frame, last_max_error, prev_compiled>>

ReprojectIntoOptions_clone_and_init(band_count) ==
    /\ IdleWith("ReprojectIntoOptions")
    /\ \E a1, a2 \in BOOLEAN :
         LET p == ReprojectIntoOptions_clone_and_init_warp_options(iopts, band_count, a1, a2)
         IN  /\ StoreWO(p.target, p.wo)
             /\ steps' = p.steps
             /\ result' = Returned(IF p.ok THEN Ok(p.wo) ELSE Err(p.err))
    /\ pc' = "io_done"
    /\ engine_calls' = <<>>
    /\ UNCHANGED <<compile_in, compile_out, src, constructed, fs, frame, last_max_error, prev_compiled>>

\* ------------------------------------------------------ reproject_image
reproject_status_failed(rv) == rv # "CE_None"

reproject_image ==
    /\ pc = "idle"
    /\ pc' = "ri_engine"
    /\ result' = Pending
    /\ engine_calls' = <<>>
    /\ steps' = <<>>
    /\ UNCHANGED <<compile_in, compile_out, src, constructed, copts, ropts, iopts, fs, frame,
                   warp_options, last_max_error, prev_compiled>>

ReprojectEngineOutcomes ==
    {[rv |-> "CE_None", msg |-> ""],
     [rv |-> "CE_Failure", msg |-> "no transformation between the datasets"]}

\* GDALReprojectImage(src, null, dst, null, GRA_Bilinear, 0.0, 0.0, None,
\*                    null, null); the pixels it writes into dst are not
\* part of the state.
GDALReprojectImage ==
    /\ pc = "ri_engine"
    /\ \E out \in ReprojectEngineOutcomes :
         /\ engine_calls' = Append(engine_calls,
                [fn |-> "GDALReprojectImage",
                 src_wkt |-> None,
                 dest |-> None,
                 dst_wkt |-> None,
                 driver |-> None,
                 resample |-> "GRA_Bilinear",
                 memory_limit |-> 0,
                 max_error |-> 0,
                 warp_options |-> None,
                 rv |-> out.rv, msg |-> out.msg])
         /\ result' = Returned(IF reproject_status_failed(out.rv)
                               THEN Err(last_cpl_err(out.rv, out.msg))
                               ELSE Ok(<<>>))
    /\ pc' = "ri_done"
    /\ UNCHANGED <<compile_in, compile_out, src, constructed, copts, ropts, iopts, fs, frame, warp_options,
                   steps, last_max_error, prev_compiled>>

\* The call returns: its locals are dropped, the caller holds the result.
DonePcs == {"car_done", "ro_done", "io_done", "ri_done"}
Return ==
    /\ pc \in DonePcs
    /\ pc' = "idle"
    /\ prev_compiled' =
         IF engine_calls # <<>> /\ engine_calls[1].fn = "GDALCreateAndReprojectImage"
         THEN engine_calls[1].warp_options
         ELSE prev_compiled
    /\ frame' = EmptyFrame
    /\ warp_options' = DefaultWarpOptions
    /\ steps' = <<>>
    /\ engine_calls' = <<>>
    /\ result' = Pending
    /\ UNCHANGED <<compile_in, compile_out, src, constructed, copts, ropts, iopts, fs, last_max_error>>

Next ==
    \/ Setters
    \/ \E f \in DstFiles, s \in SrsValues : create_and_reproject(f, s)
    \/ GDALCreateAndReprojectImage
    \/ create_and_reproject_image_fixup_open
    \/ create_and_reproject_image_fixup_band
    \/ \E n \in BandCounts : ReprojectOptions_clone_and_init(n)
    \/ \E n \in BandCounts : ReprojectIntoOptions_clone_and_init(n)
    \/ reproject_image
    \/ GDALReprojectImage
    \/ Return

Spec == Init /\ [][Next]_vars

\* ------------------- the three pipelines, side by side on equal inputs
\* Equal nested warp options, equal no-data overrides, equal outcome of
\* the two allocations; the band count is the source's raster count.
CompileInputs ==
    [warp_options : {DefaultWarpOptions} \cup
                    {with_working_datatype(DefaultWarpOptions, d) : d \in DataTypes},
     src_nodata : {None} \cup {Some(v) : v \in SrcNoDataValues},
     dst_nodata : {None} \cup {Some(v) : v \in DstNoDataValues},
     a1 : BOOLEAN, a2 : BOOLEAN]

AsCreateReprojectOptions(in) ==
    [DefaultCreateReprojectOptions EXCEPT !.warp_options = in.warp_options,
        !.src_nodata = in.src_nodata, !.dst_nodata = in.dst_nodata]
AsReprojectOptions(in) ==
    [DefaultReprojectOptions EXCEPT !.warp_options = in.warp_options,
        !.src_nodata = in.src_nodata, !.dst_nodata = in.dst_nodata]
AsReprojectIntoOptions(in) ==
    [DefaultReprojectIntoOptions EXCEPT !.warp_options = in.warp_options,
        !.src_nodata = in.src_nodata, !.dst_nodata = in.dst_nodata]

CompileInit ==
    /\ InitProgram
    /\ compile_in \in CompileInputs
    /\ compile_out = NoCompileOutput

Compile_create_and_reproject_image ==
    /\ compile_out.create = None
    /\ compile_out' = [compile_out EXCEPT !.create =
          Some(create_and_reproject_image_compile(
                  AsCreateReprojectOptions(compile_in), src.raster_count,
                  compile_in.a1, compile_in.a2))]
    /\ UNCHANGED <<compile_in, src, constructed, copts, ropts, iopts, fs, pc, frame,
                   warp_options, steps, engine_calls, result, last_max_error,
                   prev_compiled>>

Compile_ReprojectOptions ==
    /\ compile_out.reproject = None
    /\ compile_out' = [compile_out EXCEPT !.reproject =
          Some(ReprojectOptions_clone_and_init_warp_options(
                  AsReprojectOptions(compile_in), src.raster_count,
                  compile_in.a1, compile_in.a2))]
    /\ UNCHANGED <<compile_in, src, constructed, copts, ropts, iopts, fs, pc, frame,
                   warp_options, steps, engine_calls, result, last_max_error,
                   prev_compiled>>

Compile_ReprojectIntoOptions ==
    /\ compile_out.into = None
    /\ compile_out' = [compile_out EXCEPT !.into =
          Some(ReprojectIntoOptions_clone_and_init_warp_options(
                  AsReprojectIntoOptions(compile_in), src.raster_count,
                  compile_in.a1, compile_in.a2))]
    /\ UNCHANGED <<compile_in, src, constructed, copts, ropts, iopts, fs, pc, frame,
                   warp_options, steps, engine_calls, result, last_max_error,
                   prev_compiled>>

CompileNext ==
    \/ Compile_create_and_reproject_image
    \/ Compile_ReprojectOptions
    \/ Compile_ReprojectIntoOptions

CompileSpec == CompileInit /\ [][CompileNext]_vars

\* ======================================================== the claims
CreateCalls == {i \in 1..Len(engine_calls) :
                  engine_calls[i].fn = "GDALCreateAndReprojectImage"}
ReprojectCalls == {i \in 1..Len(engine_calls) :
                     engine_calls[i].fn = "GDALReprojectImage"}
ActiveOptions ==
    CASE constructed = "CreateReprojectOptions" -> copts
      [] constructed = "ReprojectOptions" -> ropts
      [] OTHER -> iopts
StepOps == {steps[i].op : i \in 1..Len(steps)}

\* C1: no step of a call (entry, engine, fixup, return; whatever its
\* outcome) changes the caller's options object, nested warp options
\* included; and a call that reuses the options compiles the configuration
\* the previous call compiled.
C1_OptionsUntouched ==
    /\ [][(pc # "idle" \/ pc' # "idle")
            => (copts' = copts /\ ropts' = ropts /\ iopts' = iopts)]_vars
    /\ [](pc = "car_engine" /\ IsSome(prev_compiled)
            => Some(warp_options) = prev_compiled)
\* A second successful call on options with a destination no-data value:
\* the compiled clone is sized, the caller's nested options are not.
C1_Witness ==
    /\ pc = "car_done" /\ result.state = "ok"
    /\ IsSome(copts.dst_nodata) /\ IsSome(prev_compiled)
    /\ warp_options.band_count >= 1 /\ copts.warp_options.band_count = 0

\* C2: in every compilation, with_band_count is called exactly when a
\* source or destination no-data override is present, every
\* apply_*_nodata call comes after it and finds sized storage, and with no
\* override neither with_band_count nor apply_*_nodata is called.
C2_SizedBeforeApplied ==
    steps # <<>> =>
      LET has == IsSome(ActiveOptions.src_nodata) \/ IsSome(ActiveOptions.dst_nodata)
      IN  /\ \A i \in 1..Len(steps) :
                steps[i].op \in {"apply_src_nodata", "apply_dst_nodata"}
                  => /\ steps[i].sized >= 1
                     /\ \E j \in 1..(i - 1) : steps[j].op = "with_band_count"
          /\ ("with_band_count" \in StepOps) <=> has
          /\ ~has => StepOps \cap {"apply_src_nodata", "apply_dst_nodata"} = {}
          /\ result.err.kind # "UnsizedNoData"
\* A compilation that sized the bands and then applied both overrides.
C2_Witness ==
    /\ Len(steps) >= 4
    /\ steps[2].op = "with_band_count"
    /\ steps[3].op = "apply_src_nodata" /\ steps[3].sized >= 1
    /\ steps[4].op = "apply_dst_nodata"
    /\ result.state = "ok"

\* C3: when create_and_reproject returns success and the options carry a
\* destination no-data value v, every band of the output file reports v;
\* right after the engine returned, no band of its output reported any.
C3_NoDataOnEveryBand ==
    /\ pc = "car_fixup" => \A b \in 1..Len(fs.nodata) : fs.nodata[b] = None
    /\ (pc = "car_done" /\ result.state = "ok" /\ IsSome(copts.dst_nodata))
         => /\ fs.exists /\ Len(fs.nodata) >= 1
            /\ \A b \in 1..Len(fs.nodata) : fs.nodata[b] = copts.dst_nodata
\* Success on a two-band output with destination no-data 255.
C3_Witness ==
    /\ pc = "car_done" /\ result.state = "ok"
    /\ copts.dst_nodata = Some(255)
    /\ Len(fs.nodata) >= 2 /\ fs.nodata[2] = Some(255)

\* C4: with an output format the driver registry does not know, the call
\* ends in an error with the engine never invoked and the output file as
\* it was before the call.
UnknownFormat ==
    /\ IsSome(copts.output_format)
    /\ ~get_driver_by_name(Unwrap(copts.output_format)).ok
C4_UnknownDriverFailsEarly ==
    /\ []((pc \in {"car_engine", "car_fixup", "car_band", "car_done"} /\ UnknownFormat)
            => (pc = "car_done" /\ result.state = "err" /\ engine_calls = <<>>))
    /\ [][(pc = "idle" /\ pc' \in {"car_engine", "car_done"} /\ UnknownFormat)
            => fs' = fs]_vars
\* The call returned the registry's unknown-driver error.
C4_Witness ==
    /\ pc = "car_done" /\ result.state = "err"
    /\ result.err.kind = "UnknownDriver" /\ engine_calls = <<>>

\* C5 (as claimed): the source SRS text the engine receives is the
\* serialization of the options' override, through a pointer that is
\* still valid, and null without an override.
C5_EngineReadsOverride ==
    /\ pc = "car_engine"
         => (frame.src_wkt_ptr.null \/ frame.src_wkt_ptr.live)
    /\ \A i \in CreateCalls :
         engine_calls[i].src_wkt =
            IF IsSome(copts.src_srs)
            THEN Some(to_wkt(Unwrap(copts.src_srs)).val)
            ELSE None

\* C6 (as claimed): reproject_image hands the engine the options'
\* source / destination SRS override when one is set, and a warp
\* configuration compiled from the options (sized and filled when a
\* no-data override is set).
C6_IntoOptionsReachEngine ==
    \A i \in ReprojectCalls :
      constructed = "ReprojectIntoOptions" =>
        /\ IsSome(iopts.src_srs)
             => engine_calls[i].src_wkt = Some(to_wkt(Unwrap(iopts.src_srs)).val)
        /\ IsSome(iopts.dst_srs)
             => engine_calls[i].dst_wkt = Some(to_wkt(Unwrap(iopts.dst_srs)).val)
        /\ IsSome(engine_calls[i].warp_options)
        /\ IsSome(iopts.dst_nodata)
             => Unwrap(engine_calls[i].warp_options).dst_nodata # <<>>

\* C7: a call invokes the engine at most once; after a non-success status
\* the call is over, its result is the error built from the engine's
\* status and last message, and the no-data fixup has not run.
C7_EngineFailureIsReturned ==
    /\ Len(engine_calls) <= 1
    /\ \A i \in 1..Len(engine_calls) :
         engine_calls[i].rv # "CE_None"
           => /\ pc \in {"car_done", "ri_done"}
              /\ result.state = "err"
              /\ result.err = last_cpl_err(engine_calls[i].rv, engine_calls[i].msg)
              /\ frame.b = 0
              /\ \A b \in 1..Len(fs.nodata) :
                   i \in CreateCalls /\ fs.exists /\ ~fs.complete
                     => fs.nodata[b] = None
\* The engine failed mid-warp in a call that asked for a destination
\* no-data value.
C7_Witness ==
    /\ pc = "car_done" /\ Len(engine_calls) = 1
    /\ engine_calls[1].rv = "CE_Failure" /\ engine_calls[1].msg = "warp failed"
    /\ IsSome(copts.dst_nodata)
    /\ result.err.msg = "warp failed"

C9_DriverChoice ==
    \A i \in CreateCalls :
      engine_calls[i].driver =
         IF IsSome(copts.output_format)
         THEN Some(DriverHandle(Unwrap(copts.output_format)))
         ELSE Some(src.driver)
\* The engine got the GTiff driver although the source is not a GTiff.
C9_Witness ==
    /\ CreateCalls # {}
    /\ copts.output_format = Some("GTiff")
    /\ src.driver # DriverHandle("GTiff")
    /\ engine_calls[1].driver = Some(DriverHandle("GTiff"))

\* C10: the max error the engine receives is 0 when with_max_error was
\* never called, and the argument of the last with_max_error call
\* otherwise.
C10_MaxErrorDefault ==
    \A i \in CreateCalls :
      engine_calls[i].max_error =
         IF IsSome(last_max_error) THEN Unwrap(last_max_error) ELSE 0
\* The engine got max error 0 from options that never set one.
C10_Witness ==
    /\ CreateCalls # {}
    /\ last_max_error = None
    /\ engine_calls[1].max_error = 0

\* C11: on equal nested warp options, equal no-data overrides and the same
\* band count, any two of the three pipelines made the same steps in the
\* same order and ended in the same configuration or the same error; the
\* steps follow the order clone, with_band_count, apply_src_nodata,
\* apply_dst_nodata, with_auto_working_datatype, the last one made only
\* when the nested options had no working datatype.
StepRank(op) ==
    CASE op = "clone" -> 1
      [] op = "with_band_count" -> 2
      [] op = "apply_src_nodata" -> 3
      [] op = "apply_dst_nodata" -> 4
      [] OTHER -> 5
InClaimedOrder(st) ==
    /\ st # <<>> /\ st[1].op = "clone"
    /\ \A k \in 1..(Len(st) - 1) : StepRank(st[k].op) < StepRank(st[k + 1].op)
    /\ (\E k \in 1..Len(st) : st[k].op = "with_auto_working_datatype")
          => compile_in.warp_options.working_datatype = None
CompileOutputs == {compile_out.create, compile_out.reproject, compile_out.into} \ {None}
C11_PipelinesEquivalent ==
    /\ \A x, y \in CompileOutputs : x = y
    /\ \A x \in CompileOutputs : InClaimedOrder(Unwrap(x).steps)
\* All three ran on options with both overrides and no working datatype,
\* and each made the five steps.
C11_Witness ==
    /\ IsSome(compile_out.create) /\ IsSome(compile_out.reproject)
    /\ IsSome(compile_out.into)
    /\ IsSome(compile_in.src_nodata) /\ IsSome(compile_in.dst_nodata)
    /\ Unwrap(compile_out.into).ok /\ Len(Unwrap(compile_out.into).steps) = 5
    /\ Unwrap(compile_out.create).wo.dst_nodata # <<>>

====
